---- MODULE Spec2Model ----
(***************************************************************************)
(* The fish-style echo of src/src/echo.rs: echo(args) joins the operands,  *)
(* appends the line ending and, under -e, rewrites the string by a fixed   *)
(* sequence of passes (literal replacements, a truncation at \c, and two   *)
(* regex passes for \0NNN and \xHH).                                       *)
(*                                                                         *)
(* A string is a sequence of code points.  Every operand of the model is   *)
(* ASCII, so byte offsets (find, truncate, len) and character positions    *)
(* coincide up to the numeric passes, which are the only producers of      *)
(* non-ASCII characters and run after the last offset computation.         *)
(***************************************************************************)
EXTENDS Integers, Sequences, FiniteSets, TLC

VARIABLES args, data, pc

vars == <<args, data, pc>>

\* ---------------------------------------------------------------- characters

BS == 92    \* '\'
LF == 10    \* "\n"
SP == 32    \* " "
BEL == 7    \* "\x07"
BSP == 8    \* "\x08"
ESC == 27   \* "\x1b"
FF == 12    \* "\x0c"
CR == 13    \* "\r"
TAB == 9    \* "\t"
VT == 11    \* "\x0b"

\* The letters that follow the backslash in the patterns of lines 53-64, 67, 77.
Ca == 97
Cb == 98
Cc == 99
Ce == 101
Cf == 102
Cn == 110
Cr == 114
Ct == 116
Cv == 118
Cx == 120
C0 == 48

\* Characters that occur only in operands (those of the tests).
Cd == 100   \* 'd' of "data": plain text, and a letter outside the vocabulary
Cm == 109   \* 'm' of "more": a letter that is no hexadecimal digit
C1 == 49
C3 == 51
C4 == 52
C5 == 53
C7 == 55
C8 == 56    \* a decimal digit that is no octal digit

\* [0-7] and [0-9a-fA-F] of the two regular expressions.
OctalDigits == 48..55
HexDigits == (48..57) \cup (97..102) \cup (65..70)

\* u8::MAX: from_str_radix::<u8> fails with PosOverflow above it.
U8Max == 255

\* -------------------------------------------------------------------- bounds

\* The most operands of an invocation, and the most characters in them all.
MaxOperands == 2
MaxLen == 10

\* ------------------------------------------------------------- string helpers

Drop(s, k) == SubSeq(s, k + 1, Len(s))

IsPrefix(p, s) == Len(p) <= Len(s) /\ SubSeq(s, 1, Len(p)) = p

\* The concatenation of the pieces p[1], ..., p[k].
RECURSIVE Flatten(_)
Flatten(p) == IF p = <<>> THEN <<>> ELSE Head(p) \o Flatten(Tail(p))

\* [String]::join(sep)
RECURSIVE Join(_, _)
Join(words, sep) ==
    IF words = <<>> THEN <<>>
    ELSE IF Len(words) = 1 THEN words[1]
    ELSE words[1] \o sep \o Join(Tail(words), sep)

\* str::replace(from, to): the non-overlapping matches of `from`, found left to
\* right in the receiver, each replaced by `to`; the result is not re-scanned.
RECURSIVE Replace(_, _, _)
Replace(s, from, to) ==
    IF s = <<>> THEN <<>>
    ELSE IF IsPrefix(from, s) THEN to \o Replace(Drop(s, Len(from)), from, to)
    ELSE <<Head(s)>> \o Replace(Tail(s), from, to)

\* str::find(pat).unwrap_or(len): the offset of the first match, or the length.
RECURSIVE FindOrLen(_, _)
FindOrLen(s, pat) ==
    IF s = <<>> THEN 0
    ELSE IF IsPrefix(pat, s) THEN 0
    ELSE 1 + FindOrLen(Tail(s), pat)

\* String::truncate(new_len)
Truncate(s, new_len) == SubSeq(s, 1, new_len)

\* char::to_digit
DigitValue(c) ==
    IF c \in 48..57 THEN c - 48
    ELSE IF c \in 97..102 THEN c - 87
    ELSE c - 55

\* The value of a digit string in the radix, unbounded.
RECURSIVE RadixValue(_, _)
RadixValue(digits, radix) ==
    IF digits = <<>> THEN 0
    ELSE RadixValue(SubSeq(digits, 1, Len(digits) - 1), radix) * radix
         + DigitValue(digits[Len(digits)])

\* A result of a step that may panic.
Ok(s) == [panicked |-> FALSE, str |-> s]
Abort == [panicked |-> TRUE, str |-> <<>>]

Cons(s, r) == IF r.panicked THEN r ELSE Ok(s \o r.str)

\* The length of the greedy match of  \\<letter>[digits]{1,max}  at the head
\* of s, 0 when there is none.
RECURSIVE DigitRun(_, _, _)
DigitRun(s, digits, max) ==
    IF max = 0 \/ s = <<>> \/ Head(s) \notin digits THEN 0
    ELSE 1 + DigitRun(Tail(s), digits, max - 1)

MatchLen(s, letter, digits, max) ==
    IF IsPrefix(<<BS, letter>>, s) /\ DigitRun(Drop(s, 2), digits, max) > 0
    THEN 2 + DigitRun(Drop(s, 2), digits, max)
    ELSE 0

\* Regex::replace_all with the closure of lines 69-75 / 79-85: each leftmost,
\* non-overlapping greedy match is replaced by the character whose code point
\* is the u8 parsed from the digits; the parse's unwrap panics on overflow.
RECURSIVE NumericReplaceAll(_, _, _, _, _)
NumericReplaceAll(s, letter, digits, max, radix) ==
    IF s = <<>> THEN Ok(<<>>)
    ELSE LET k == MatchLen(s, letter, digits, max) IN
         IF k = 0
         THEN Cons(<<Head(s)>>, NumericReplaceAll(Tail(s), letter, digits, max, radix))
         ELSE LET v == RadixValue(SubSeq(s, 3, k), radix) IN
              IF v > U8Max THEN Abort
              ELSE Cons(<<v>>, NumericReplaceAll(Drop(s, k), letter, digits, max, radix))

\* --------------------------------------------------------- the steps of echo

\* A faulty variant of line_ending: the line ending left out whenever escapes are interpreted
line_ending_OnlyPlain(a) == IF a.n \/ a.e THEN <<>> ELSE <<LF>>

line_ending(a) == IF a.n THEN <<>> ELSE <<LF>>
arguments_join(a) == IF a.s THEN <<>> ELSE <<SP>>

\* A faulty variant of JoinTerminate: a separator after every operand, the last included
JoinTerminate_TrailingSeparator(a) ==
    Flatten([ i \in 1..Len(a.data) |-> a.data[i] \o arguments_join(a) ]) \o line_ending(a)

\* line 50
JoinTerminate(a) == Join(a.data, arguments_join(a)) \o line_ending(a)

\* lines 52-54
ReplaceBackslashOf(s) == Replace(s, <<BS, BS>>, <<BS>>)
ReplaceAOf(s) == Replace(s, <<BS, Ca>>, <<BEL>>)
ReplaceBOf(s) == Replace(s, <<BS, Cb>>, <<BSP>>)

\* A faulty variant of truncate_offset: the offset past the \c instead of before it
truncate_offset_PastC(s) ==
    IF FindOrLen(s, <<BS, Cc>>) = Len(s) THEN Len(s) ELSE FindOrLen(s, <<BS, Cc>>) + 2

\* lines 56-57
truncate_offset(s) == FindOrLen(s, <<BS, Cc>>)
TruncateOf(s) == Truncate(s, truncate_offset(s))

\* lines 59-64
ReplaceEOf(s) == Replace(s, <<BS, Ce>>, <<ESC>>)
ReplaceFOf(s) == Replace(s, <<BS, Cf>>, <<FF>>)
ReplaceNOf(s) == Replace(s, <<BS, Cn>>, <<LF>>)
\* A faulty variant of ReplaceROf: \r taken for \n
ReplaceROf_AsLineFeed(s) == Replace(s, <<BS, Cr>>, <<LF>>)
ReplaceROf(s) == Replace(s, <<BS, Cr>>, <<CR>>)
ReplaceTOf(s) == Replace(s, <<BS, Ct>>, <<TAB>>)
ReplaceVOf(s) == Replace(s, <<BS, Cv>>, <<VT>>)

\* A faulty variant of hexadecimals: only one hexadecimal digit taken
hexadecimals_OneDigit(s) == NumericReplaceAll(s, Cx, HexDigits, 1, 16)

\* lines 67-76 and 77-86
octals(s) == NumericReplaceAll(s, C0, OctalDigits, 3, 8)
hexadecimals(s) == NumericReplaceAll(s, Cx, HexDigits, 2, 16)

\* ------------------------------------------------- echo as a whole function

\* lines 59-86 applied to the string left by the truncation; the hexadecimal
\* pass runs only if the octal pass returned
RemainingPasses(s) ==
    LET r == octals(ReplaceVOf(ReplaceTOf(ReplaceROf(ReplaceNOf(ReplaceFOf(ReplaceEOf(s)))))))
    IN IF r.panicked THEN r ELSE hexadecimals(r.str)

\* lines 52-54
FirstPasses(s) == ReplaceBOf(ReplaceAOf(ReplaceBackslashOf(s)))

\* lines 46-90
echo(a) ==
    IF a.e THEN RemainingPasses(TruncateOf(FirstPasses(JoinTerminate(a))))
    ELSE Ok(JoinTerminate(a))

\* ------------------------------------------------------------------- inputs

\* The operands an invocation draws from: plain text, each escape of the
\* vocabulary, escapes cut in two, numeric escapes of every width, in and out
\* of range, and malformed escapes.
Words ==
    { <<Cd>>, <<BS>>, <<Cn>>, <<Cc>>, <<C4>>,
      <<BS, BS>>, <<BS, Cc>>, <<BS, Cn>>, <<BS, Cd>>, <<BS, C0>>, <<BS, Cx>>,
      <<BS, Ca, BS, Cb>>, <<BS, Ce, BS, Cf>>, <<BS, Cr, BS, Ct>>, <<BS, Cv>>,
      <<Cx, C4, C1>>, <<BS, C0, C8>>, <<BS, Cx, Cm>>,
      <<BS, Cx, C7, C5>>, <<BS, Cx, C5, Cc>>,
      <<BS, C0, C1, C3, C4>>, <<BS, C0, C4, C0, C0>>, <<BS, C0, C1, C5, C3>> }

RECURSIVE TotalLen(_)
TotalLen(words) == IF words = <<>> THEN 0 ELSE Len(Head(words)) + TotalLen(Tail(words))

OperandLists ==
    { w \in UNION { [1..k -> Words] : k \in 0..MaxOperands } : TotalLen(w) <= MaxLen }

Invocations == [n : BOOLEAN, s : BOOLEAN, e : BOOLEAN, data : OperandLists]

\* ------------------------------------------------------------------ actions

Init ==
    /\ args \in Invocations
    /\ data = <<>>
    /\ pc = "join"

\* A faulty variant of JoinArgs: the escapes interpreted operand by operand, before the join
JoinArgs_PerOperand ==
    /\ pc = "join"
    /\ data' = Join([ i \in 1..Len(args.data) |->
                        IF args.e
                        THEN RemainingPasses(TruncateOf(FirstPasses(args.data[i]))).str
                        ELSE args.data[i] ],
                    arguments_join(args)) \o line_ending(args)
    /\ pc' = "done"
    /\ UNCHANGED args

\* lines 47-50; without -e the function returns the string as it is (line 89)
JoinArgs ==
    /\ pc = "join"
    /\ data' = JoinTerminate(args)
    /\ pc' = IF args.e THEN "backslash" ELSE "done"
    /\ UNCHANGED args

\* line 52
ReplaceBackslash ==
    /\ pc = "backslash"
    /\ data' = ReplaceBackslashOf(data)
    /\ pc' = "a"
    /\ UNCHANGED args

\* line 53
ReplaceA ==
    /\ pc = "a"
    /\ data' = ReplaceAOf(data)
    /\ pc' = "b"
    /\ UNCHANGED args

\* line 54
ReplaceB ==
    /\ pc = "b"
    /\ data' = ReplaceBOf(data)
    /\ pc' = "c"
    /\ UNCHANGED args

\* lines 56-57
TruncateAtC ==
    /\ pc = "c"
    /\ data' = TruncateOf(data)
    /\ pc' = "e"
    /\ UNCHANGED args

\* line 59
ReplaceE ==
    /\ pc = "e"
    /\ data' = ReplaceEOf(data)
    /\ pc' = "f"
    /\ UNCHANGED args

\* line 60
ReplaceF ==
    /\ pc = "f"
    /\ data' = ReplaceFOf(data)
    /\ pc' = "n"
    /\ UNCHANGED args

\* line 61
ReplaceN ==
    /\ pc = "n"
    /\ data' = ReplaceNOf(data)
    /\ pc' = "r"
    /\ UNCHANGED args

\* line 62
ReplaceR ==
    /\ pc = "r"
    /\ data' = ReplaceROf(data)
    /\ pc' = "t"
    /\ UNCHANGED args

\* line 63
ReplaceT ==
    /\ pc = "t"
    /\ data' = ReplaceTOf(data)
    /\ pc' = "v"
    /\ UNCHANGED args

\* line 64
ReplaceV ==
    /\ pc = "v"
    /\ data' = ReplaceVOf(data)
    /\ pc' = "octal"
    /\ UNCHANGED args

\* lines 67-76: the unwrap of the u8 parse panics, and echo never returns
ReplaceOctals ==
    /\ pc = "octal"
    /\ IF octals(data).panicked
       THEN pc' = "panicked" /\ UNCHANGED data
       ELSE pc' = "hex" /\ data' = octals(data).str
    /\ UNCHANGED args

\* lines 77-86, and the return of line 89
ReplaceHexadecimals ==
    /\ pc = "hex"
    /\ IF hexadecimals(data).panicked
       THEN pc' = "panicked" /\ UNCHANGED data
       ELSE pc' = "done" /\ data' = hexadecimals(data).str
    /\ UNCHANGED args

Next ==
    \/ JoinArgs
    \/ ReplaceBackslash
    \/ ReplaceA
    \/ ReplaceB
    \/ TruncateAtC
    \/ ReplaceE
    \/ ReplaceF
    \/ ReplaceN
    \/ ReplaceR
    \/ ReplaceT
    \/ ReplaceV
    \/ ReplaceOctals
    \/ ReplaceHexadecimals

Spec == Init /\ [][Next]_vars

\* ------------------------------------------------------- notions of the claims

Returned == pc = "done"
Panicked == pc = "panicked"

\* The operands laid end to end, each but the last followed by the separator,
\* and then the terminator: stated position by position.
LenSum(ops, k) == LET RECURSIVE sum(_)
                      sum(i) == IF i = 0 THEN 0 ELSE Len(ops[i]) + sum(i - 1)
                  IN sum(k)

OperandOffset(ops, i, sepLen) == LenSum(ops, i - 1) + (i - 1) * sepLen

IsJoinOf(out, ops, sep, term) ==
    LET k == Len(ops)
        body == LenSum(ops, k) + (IF k = 0 THEN 0 ELSE (k - 1) * Len(sep))
    IN /\ Len(out) = body + Len(term)
       /\ \A i \in 1..k :
            LET off == OperandOffset(ops, i, Len(sep)) IN
            /\ SubSeq(out, off + 1, off + Len(ops[i])) = ops[i]
            /\ i < k => SubSeq(out, off + Len(ops[i]) + 1, off + Len(ops[i]) + Len(sep)) = sep
       /\ SubSeq(out, body + 1, body + Len(term)) = term

Separator == IF args.s THEN <<>> ELSE <<SP>>
Terminator == IF args.n THEN <<>> ELSE <<LF>>

\* The string of Step 2, as the code builds it.
Joined == JoinTerminate(args)

\* --------------------------------------------------------------------- C1
\* C1: echo is total: whatever the flags and the operands, the call returns
\* an output string and never panics.
C1_Total == ~Panicked

\* --------------------------------------------------------------------- C2
\* C2: with interpret_escapes false the output is the operands in order,
\* separated by " " (by "" under suppress_spacing) and followed by "\n" (by
\* nothing under suppress_newline), backslashes included unchanged; the empty
\* operand list yields exactly the terminator.
C2_PlainJoin ==
    (Returned /\ ~args.e) =>
        /\ IsJoinOf(data, args.data, Separator, Terminator)
        /\ args.data = <<>> => data = Terminator

C2_Witness ==
    /\ Returned /\ ~args.e /\ ~args.s /\ ~args.n
    /\ Len(args.data) = 2
    /\ args.data[1] = <<BS, Cn>>
    /\ data = <<BS, Cn, SP>> \o args.data[2] \o <<LF>>

\* --------------------------------------------------------------------- C3
\* C3: under -e the text a pass produces is never re-scanned by a later pass:
\* an input  \\  followed by one of a, b, c, e, f, n, r, t, v, 0+octal digit or
\* x+hex digit yields a backslash followed by those characters unchanged (and
\* is not truncated), and a backslash produced by an octal escape is not
\* combined with the text after it by the hexadecimal pass.
EscapeTails ==
    { <<l>> : l \in {Ca, Cb, Cc, Ce, Cf, Cn, Cr, Ct, Cv} }
    \cup { <<C0, d>> : d \in OctalDigits }
    \cup { <<Cx, h>> : h \in HexDigits }
    \cup { <<Cx, h[1], h[2]>> : h \in HexDigits \X HexDigits }

HexTails == { t \in EscapeTails : Head(t) = Cx }

C3_NoRescan ==
    (args.e /\ (Returned \/ Panicked)) =>
        /\ \A t \in EscapeTails :
             Joined = <<BS, BS>> \o t \o Terminator
                => Returned /\ data = <<BS>> \o t \o Terminator
        /\ \A t \in HexTails :
             Joined = <<BS, C0, C1, C3, C4>> \o t \o Terminator
                => Returned /\ data = <<BS>> \o t \o Terminator

\* --------------------------------------------------------------------- C4
\* C4: under -e, if the string left by the  \\ , \a  and  \b  passes contains
\* the two characters \c, everything from the first of them on is discarded
\* (\c itself and the terminator of Step 2 included, whatever suppress_newline
\* is) and the output is the remaining passes applied to the prefix before it;
\* with no \c there the step changes nothing, and a \c that only an octal or
\* hexadecimal replacement brings about does not truncate.
BackslashCAt(s, i) == i < Len(s) /\ s[i] = BS /\ s[i + 1] = Cc

HasBackslashC(s) == \E i \in 1..Len(s) : BackslashCAt(s, i)

FirstBackslashC(s) ==
    CHOOSE i \in 1..Len(s) :
        BackslashCAt(s, i) /\ \A j \in 1..(i - 1) : ~BackslashCAt(s, j)

PrefixBeforeC(s) ==
    IF HasBackslashC(s) THEN SubSeq(s, 1, FirstBackslashC(s) - 1) ELSE s

C4_Truncation ==
    args.e =>
        LET kept == PrefixBeforeC(FirstPasses(Joined))
            rest == RemainingPasses(kept)
        IN /\ pc = "e" => data = kept
           /\ Returned => ~rest.panicked /\ data = rest.str
           /\ Panicked => rest.panicked

\* "d" and "\c": the output is "d " with neither \c nor the line feed.
C4_Witness ==
    /\ Returned /\ args.e /\ ~args.n /\ ~args.s
    /\ args.data = << <<Cd>>, <<BS, Cc>> >>
    /\ data = <<Cd, SP>>

\* A \c that the hexadecimal pass brings about ("\x5c" then "c") stays in the
\* output, terminator and all.
C4_LateCReached ==
    /\ Returned /\ args.e /\ ~args.n
    /\ ~HasBackslashC(FirstPasses(Joined))
    /\ data = <<BS, Cc, LF>>

\* ------------------------------------------------------- numeric escapes
\* Position by position: a match starts at every backslash that is followed by
\* the letter and a digit, it extends over the longest run of at most `max`
\* digits, and it stands for the character with the digits' value.
NumStart(s, i, letter, digits) ==
    /\ i + 2 <= Len(s)
    /\ s[i] = BS
    /\ s[i + 1] = letter
    /\ s[i + 2] \in digits

NumRun(s, i, digits, max) ==
    Cardinality({ k \in 1..max :
        \A j \in 1..k : i + 1 + j <= Len(s) /\ s[i + 1 + j] \in digits })

RECURSIVE Pow(_, _)
Pow(b, x) == IF x = 0 THEN 1 ELSE b * Pow(b, x - 1)

NumValue(s, i, run, radix) ==
    LET RECURSIVE sum(_)
        sum(j) == IF j > run THEN 0
                  ELSE DigitValue(s[i + 1 + j]) * Pow(radix, run - j) + sum(j + 1)
    IN sum(1)

NumCovered(s, i, letter, digits, max) ==
    \E m \in 1..(i - 1) :
        NumStart(s, m, letter, digits) /\ i <= m + 1 + NumRun(s, m, digits, max)

NumericReference(s, letter, digits, max, radix) ==
    Flatten([ i \in 1..Len(s) |->
        IF NumStart(s, i, letter, digits)
        THEN << NumValue(s, i, NumRun(s, i, digits, max), radix) >>
        ELSE IF NumCovered(s, i, letter, digits, max) THEN <<>>
        ELSE << s[i] >> ])

OctalReference(s) == NumericReference(s, C0, OctalDigits, 3, 8)
HexReference(s) == NumericReference(s, Cx, HexDigits, 2, 16)

\* --------------------------------------------------------------------- C5
\* C5: under -e the octal pass replaces every  \0  followed by 1 to 3 octal
\* digits (the longest run of at most 3) by the one character whose code point
\* is the digits' base-8 value; a fourth digit stays as text and the rest of
\* the string is unchanged by the pass.
C5_OctalPass ==
    [][pc = "octal" => (pc' = "hex" /\ data' = OctalReference(data))]_vars

\* What the octal pass does when it returns: the claim holds of every string
\* on which the parse does not overflow.
C5_OctalPassWhenReturning ==
    [][(pc = "octal" /\ pc' = "hex") => data' = OctalReference(data)]_vars

\* --------------------------------------------------------------------- C6
\* C6: under -e the hexadecimal pass replaces every  \x  followed by 1 or 2
\* hexadecimal digits (the longest run of at most 2) by the one character
\* whose code point is the digits' base-16 value, always within 0..255; a
\* third hexadecimal digit stays as text.
C6_HexPass ==
    [][pc = "hex" =>
        /\ pc' = "done"
        /\ data' = HexReference(data)
        /\ \A i \in 1..Len(data) :
             NumStart(data, i, Cx, HexDigits)
                => NumValue(data, i, NumRun(data, i, HexDigits, 2), 16) \in 0..U8Max
      ]_vars

\* "\x75" and "4" under -s: "u4" and the line feed.
C6_Witness ==
    /\ Returned /\ args.e /\ args.s /\ ~args.n
    /\ args.data = << <<BS, Cx, C7, C5>>, <<C4>> >>
    /\ data = <<117, C4, LF>>

\* --------------------------------------------------------------------- C7
\* C7: under -e every malformed escape stays in the output as literal text and
\* raises no fault: a backslash before a character outside the vocabulary,
\* \0  without an octal digit after it,  \x  without a hexadecimal digit after
\* it, a trailing lone backslash, and a numeric escape whose digits are out of
\* range (three octal digits that make more than 255).
Vocabulary == {BS, Ca, Cb, Cc, Ce, Cf, Cn, Cr, Ct, Cv, C0, Cx}

CharAt(s, i) == IF i <= Len(s) THEN s[i] ELSE -1

IncompleteAt(s, i) ==
    \/ CharAt(s, i + 1) \notin Vocabulary
    \/ CharAt(s, i + 1) = C0 /\ CharAt(s, i + 2) \notin OctalDigits
    \/ CharAt(s, i + 1) = Cx /\ CharAt(s, i + 2) \notin HexDigits

OutOfRangeAt(s, i) ==
    /\ NumStart(s, i, C0, OctalDigits)
    /\ NumValue(s, i, NumRun(s, i, OctalDigits, 3), 8) > U8Max

OnlyMalformed(s) ==
    \A i \in 1..Len(s) : s[i] = BS => (IncompleteAt(s, i) \/ OutOfRangeAt(s, i))

OnlyIncomplete(s) ==
    \A i \in 1..Len(s) : s[i] = BS => IncompleteAt(s, i)

C7_MalformedLiteral ==
    (args.e /\ (Returned \/ Panicked) /\ OnlyMalformed(Joined))
        => (Returned /\ data = Joined)

\* The same without the numeric escapes out of range: every other malformed
\* escape is left as it is.
C7_IncompleteLiteral ==
    (args.e /\ (Returned \/ Panicked) /\ OnlyIncomplete(Joined))
        => (Returned /\ data = Joined)

C7_IncompleteReached ==
    /\ Returned /\ args.e /\ OnlyIncomplete(Joined)
    /\ args.data = << <<BS, C0, C8>>, <<BS>> >>

\* --------------------------------------------------------------------- C8
\* C8: under -e, for a joined string with no  \\  and no  \c , every  \a, \b,
\* \e, \f, \n, \r, \t, \v  is replaced by the one character 0x07, 0x08, 0x1b,
\* 0x0c, 0x0a, 0x0d, 0x09, 0x0b, and every other character keeps its value
\* and its place in the order.
SimpleEscape ==
    (Ca :> BEL) @@ (Cb :> BSP) @@ (Ce :> ESC) @@ (Cf :> FF)
    @@ (Cn :> LF) @@ (Cr :> CR) @@ (Ct :> TAB) @@ (Cv :> VT)

SimpleStart(s, i) == i < Len(s) /\ s[i] = BS /\ s[i + 1] \in DOMAIN SimpleEscape

SimpleReference(s) ==
    Flatten([ i \in 1..Len(s) |->
        IF SimpleStart(s, i) THEN << SimpleEscape[s[i + 1]] >>
        ELSE IF i > 1 /\ SimpleStart(s, i - 1) THEN <<>>
        ELSE << s[i] >> ])

NoDoubleBackslash(s) == \A i \in 1..(Len(s) - 1) : ~(s[i] = BS /\ s[i + 1] = BS)

NoNumericEscape(s) ==
    \A i \in 1..Len(s) :
        ~NumStart(s, i, C0, OctalDigits) /\ ~NumStart(s, i, Cx, HexDigits)

\* C8 as stated, of the output.
C8_SimpleEscapes ==
    (Returned /\ args.e /\ NoDoubleBackslash(Joined) /\ ~HasBackslashC(Joined))
        => data = SimpleReference(Joined)

\* C8 amended: for a joined string with no  \\  and no  \c  the statement holds
\* of the string handed to the octal and hexadecimal passes, and of the output
\* when the joined string holds no  \0+octal digit  and no  \x+hex digit.
C8_SimpleEscapesAmended ==
    (args.e /\ NoDoubleBackslash(Joined) /\ ~HasBackslashC(Joined)) =>
        /\ pc = "octal" => data = SimpleReference(Joined)
        /\ (NoNumericEscape(Joined) /\ (Returned \/ Panicked))
              => (Returned /\ data = SimpleReference(Joined))

\* "\a\b" and "\r\t": BEL, BS, space, CR, TAB and the line feed.
C8_Witness ==
    /\ Returned /\ args.e /\ ~args.s /\ ~args.n
    /\ args.data = << <<BS, Ca, BS, Cb>>, <<BS, Cr, BS, Ct>> >>
    /\ data = <<BEL, BSP, SP, CR, TAB, LF>>

\* --------------------------------------------------------------------- C9
\* C9: the terminator is appended in Step 2 whatever escape processing
\* follows: without suppress_newline the output ends with a line feed for
\* both values of interpret_escapes (an operand ending in \n gives two line
\* feeds under -e), and with suppress_newline no terminator is added.
EndsWith(s, suffix) ==
    Len(suffix) <= Len(s) /\ SubSeq(s, Len(s) - Len(suffix) + 1, Len(s)) = suffix

\* C9 as stated.
C9_Terminator ==
    /\ (pc = "backslash" \/ (Returned /\ ~args.e))
          => data = Join(args.data, Separator) \o Terminator
    /\ (Returned /\ ~args.n) => EndsWith(data, <<LF>>)

\* C9 amended: the string of Step 2 is the joined operands and then the line
\* feed (nothing under suppress_newline); without suppress_newline the output
\* ends with a line feed when interpret_escapes is false, and when it is true
\* unless the string left by the  \\ , \a , \b  passes holds a \c (the
\* truncation then removes the terminator); an operand ending in \n then gives
\* two line feeds.
C9_TerminatorAmended ==
    /\ (pc = "backslash" \/ (Returned /\ ~args.e))
          => data = Join(args.data, Separator) \o Terminator
    /\ (Returned /\ ~args.n /\ (args.e => ~HasBackslashC(FirstPasses(Joined))))
          => /\ EndsWith(data, <<LF>>)
             /\ (args.e /\ EndsWith(Joined, <<BS, Cn, LF>>)) => EndsWith(data, <<LF, LF>>)

\* "d" and "\n" under -e: "d", a space and two line feeds.
C9_Witness ==
    /\ Returned /\ args.e /\ ~args.n /\ ~args.s
    /\ args.data = << <<Cd>>, <<BS, Cn>> >>
    /\ data = <<Cd, SP, LF, LF>>

\* -------------------------------------------------------------------- C10
\* C10: the escapes are interpreted in the joined and terminated string, not
\* operand by operand: the outcome is that of the invocation whose one operand
\* is that string (with nothing joined or appended), so invocations with the
\* same string and the same -e agree; an escape cut across two operands under
\* suppress_spacing ("\" then "n") is interpreted as one escape.
Canonical ==
    [n |-> TRUE, s |-> TRUE, e |-> args.e,
     data |-> << Flatten([ i \in 1..Len(args.data) |->
                    args.data[i] \o (IF i < Len(args.data) THEN Separator ELSE <<>>) ])
                 \o Terminator >>]

C10_JoinedStringOnly ==
    /\ Returned => echo(Canonical) = Ok(data)
    /\ Panicked => echo(Canonical).panicked
    /\ (Returned /\ args.e /\ args.s /\ args.data = << <<BS>>, <<Cn>> >>)
          => data = <<LF>> \o Terminator

C10_Witness ==
    /\ Returned /\ args.e /\ args.s /\ ~args.n
    /\ args.data = << <<BS>>, <<Cn>> >>
    /\ data = <<LF, LF>>

====
